---- MODULE Spec2Model ----
(***************************************************************************)
(* Model of CoindeskArticleFetcher (src/fetch_coindesk_articles.py): the   *)
(* paginated fetch-and-dedup loop fetch_all_articles and the page request  *)
(* fetch_articles it issues on every iteration.                            *)
(*                                                                         *)
(* A Python dict is a function whose DOMAIN is the set of keys present, so *)
(* dict.get(key, default) is Get.  Python's None is the empty set and a    *)
(* present value v is the singleton {v}, wherever a variable is optional.  *)
(***************************************************************************)
EXTENDS Integers, Sequences, FiniteSets, TLC

\* ------------------------------------------------------------------------
\* Bounds of the model
\* ------------------------------------------------------------------------
MaxArticles == 3
MaxBatchSize == 2
MaxPageLen == 2
MaxInvocations == 2
MaxScriptLen == 3
MaxTexts == 3
MaxPredictBatchSize == 2

\* ------------------------------------------------------------------------
\* Python values
\* ------------------------------------------------------------------------
None == {}
Some(v) == {v}
Value(opt) == CHOOSE v \in opt : TRUE

\* dict.get(key, default)
Get(d, key, default) == IF key \in DOMAIN d THEN d[key] ELSE default

\* article.get("GUID") of an article without the key is None, which is falsy
\* like the empty string; both are written NoGuid.
NoGuid == ""
Truthy(guid) == guid # NoGuid

\* A return that forgets the slice
Take_NoSlice(s, n) == s

\* all_articles[:n] for n >= 0
Take(s, n) == SubSeq(s, 1, IF n < Len(s) THEN n ELSE Len(s))

\* ------------------------------------------------------------------------
\* The article source: raw articles it can hold and the pages it can return
\* ------------------------------------------------------------------------
DaysBackValues == {7}

\* The empty mapping: an article without any field
EmptyArticle == [key \in {} |-> 0]

\* Three well-formed articles, and three without a GUID whose published
\* timestamp is 1, negative and missing.
RawArticles ==
    { [GUID |-> "a", PUBLISHED_ON |-> 100],
      [GUID |-> "b", PUBLISHED_ON |-> 90],
      [GUID |-> "c", PUBLISHED_ON |-> 80],
      [PUBLISHED_ON |-> 1],
      [PUBLISHED_ON |-> -5],
      EmptyArticle }

\* An empty page
NoArticles == <<>>

Pages == UNION { [1..n -> RawArticles] : n \in 0..MaxPageLen }

\* What requests.get can produce: a 200 response with a "Data" list, a 200
\* response whose body has no "Data", a non-200 status, or a raised exception
\* (transport failure, or response.json() failing on a malformed body).
Responses ==
    { [status_code |-> 200, Data |-> p] : p \in Pages }
      \cup { [status_code |-> 200], [status_code |-> 500],
             [status_code |-> 500,
              Data |-> << [GUID |-> "a", PUBLISHED_ON |-> 100] >>],
             [exception |-> "RequestException"] }

\* A source with a fixed behaviour: the pages it returns by call, an empty page
\* on every call after the last one listed.
ScriptPages ==
    { NoArticles,
      << [GUID |-> "a", PUBLISHED_ON |-> 100], [GUID |-> "b", PUBLISHED_ON |-> 90] >>,
      << [GUID |-> "b", PUBLISHED_ON |-> 90], [GUID |-> "c", PUBLISHED_ON |-> 80] >> }

Scripts == UNION { [1..n -> ScriptPages] : n \in 1..MaxScriptLen }

ScriptedResponse(script, call) ==
    [status_code |-> 200,
     Data |-> IF call <= Len(script) THEN script[call] ELSE NoArticles]

\* ------------------------------------------------------------------------
\* State
\* ------------------------------------------------------------------------
VARIABLES
    pc,            \* position in fetch_all_articles: "idle" (never called),
                   \* "fetch" (loop condition held, about to call
                   \* fetch_articles), "process" (fetch_articles returned,
                   \* loop body about to run), "done" (returned)
    api_key,       \* self.api_key: None or Some(key)
    source,        \* the article source behind the API: None (it may answer
                   \* any request with any response) or Some(script)
    days_back, batch_size, max_articles,   \* arguments of fetch_all_articles
    all_articles,  \* collected articles, in order
    seen_guids,    \* GUIDs collected so far
    to_timestamp,  \* upper bound for the next request: None or Some(ts)
    batch,         \* the page fetch_articles returned and the loop body has
                   \* not processed yet: None or Some(page)
    response,      \* the HTTP response behind that page: None or Some(response)
    requests,      \* the params of every HTTP request sent in this run, in order
    calls,         \* number of fetch_articles calls of this run
    sleeps,        \* number of time.sleep(2) calls of this run
    log,           \* the log message of the break that ended the loop, or ""
    result,        \* what fetch_all_articles returned: None or Some(sequence)
    invocations,   \* number of fetch_all_articles calls on this fetcher
    platform,      \* the C library under datetime.fromtimestamp: "posix"
                   \* converts negative timestamps, "windows" rejects them
    dataset_pc,    \* position in create_dataset: "idle", "saved" (after
                   \* save_dataset), "returned", "KeyError" (raised)
    fetched_articles,   \* articles of create_dataset: what fetch_all_articles
                   \* returned
    df,            \* the DataFrame of process_article_data: None or Some(df)
    saved,         \* every DataFrame written by save_dataset, in order
    dataset,       \* what create_dataset returned: None or Some(df)
    device,        \* the global name device of utils.py: None while nothing
                   \* binds it, Some(device) when the caller has injected it
    predict_pc,    \* position in predict_sentiment: "idle", "loop",
                   \* "returned", "NameError" (raised)
    texts, model, predict_batch_size,   \* arguments of predict_sentiment
    offset,        \* the index i of the for loop of predict_sentiment
    chunks,        \* every batch_texts handed to the tokenizer, in order
    predictions    \* the labels collected by predict_sentiment

args == <<days_back, batch_size, max_articles>>
locals == <<all_articles, seen_guids, to_timestamp, batch>>
observed == <<response, requests, calls, sleeps, log, result>>
fetcher == <<pc, api_key, source, args, locals, observed, invocations>>
assembler == <<platform, dataset_pc, fetched_articles, df, saved, dataset>>
predictor == <<device, predict_pc, texts, model, predict_batch_size, offset, chunks,
               predictions>>
vars == <<fetcher, assembler, predictor>>

Sources == {None} \cup { Some(script) : script \in Scripts }

\* ------------------------------------------------------------------------
\* fetch_articles
\* ------------------------------------------------------------------------
check_api_key(key) == key # None

\* The params dict of one request.  days_back only feeds start_date, which is
\* computed and never put into params.
BuildParams(days, limit, to_ts) ==
    LET params == [limit |-> limit, lang |-> "EN", includeSentiment |-> "true"]
    IN IF to_ts # None THEN params @@ ("to_ts" :> Value(to_ts)) ELSE params

\* A parse that reads "Data" whatever the status code
ParseResponse_IgnoreStatus(resp) ==
    IF "exception" \in DOMAIN resp THEN NoArticles
    ELSE Get(resp, "Data", NoArticles)

\* The list fetch_articles returns for a response.
ParseResponse(resp) ==
    IF "exception" \in DOMAIN resp THEN NoArticles
    ELSE IF resp.status_code = 200 THEN Get(resp, "Data", NoArticles)
    ELSE NoArticles

\* ------------------------------------------------------------------------
\* fetch_all_articles: helpers of the loop body
\* ------------------------------------------------------------------------
RECURSIVE UniqueArticles_BatchSeen(_, _)
\* A for loop that tests every GUID against the GUIDs seen before this batch
\* only, so a GUID repeated within the batch passes twice
UniqueArticles_BatchSeen(b, seen) ==
    IF b = <<>> THEN <<>>
    ELSE LET guid == Get(Head(b), "GUID", NoGuid)
         IN IF Truthy(guid) /\ guid \notin seen
            THEN <<Head(b)>> \o UniqueArticles_BatchSeen(Tail(b), seen)
            ELSE UniqueArticles_BatchSeen(Tail(b), seen)

RECURSIVE UniqueArticles_PageOnly(_, _, _)
UniqueArticles_PageOnly(b, seen, met) ==
    IF b = <<>> THEN <<>>
    ELSE LET guid == Get(Head(b), "GUID", NoGuid)
         IN IF Truthy(guid) /\ guid \notin met
            THEN <<Head(b)>> \o UniqueArticles_PageOnly(Tail(b), seen, met \cup {guid})
            ELSE UniqueArticles_PageOnly(Tail(b), seen, met)

\* A for loop that deduplicates within the batch and never looks at seen_guids
UniqueArticles_IgnoreSeen(b, seen) == UniqueArticles_PageOnly(b, seen, {})

RECURSIVE UniqueArticles_Reversed(_, _)
\* A for loop that inserts each unique article at the front of the list
UniqueArticles_Reversed(b, seen) ==
    IF b = <<>> THEN <<>>
    ELSE LET guid == Get(Head(b), "GUID", NoGuid)
         IN IF Truthy(guid) /\ guid \notin seen
            THEN UniqueArticles_Reversed(Tail(b), seen \cup {guid}) \o <<Head(b)>>
            ELSE UniqueArticles_Reversed(Tail(b), seen)

RECURSIVE UniqueArticles(_, _)
\* The for loop over the batch: the articles whose GUID is truthy and not in
\* seen, each GUID being added to seen as soon as it is met.
UniqueArticles(b, seen) ==
    IF b = <<>> THEN <<>>
    ELSE LET guid == Get(Head(b), "GUID", NoGuid)
         IN IF Truthy(guid) /\ guid \notin seen
            THEN <<Head(b)>> \o UniqueArticles(Tail(b), seen \cup {guid})
            ELSE UniqueArticles(Tail(b), seen)

\* The GUIDs the for loop adds to seen_guids
AddedGuids(unique_articles) ==
    { unique_articles[i].GUID : i \in 1..Len(unique_articles) }

SortKey(x) == Get(x, "PUBLISHED_ON", 0)

RECURSIVE Insert(_, _)
\* Insert x after every element whose key is <= its own (stable).
Insert(x, s) ==
    IF s = <<>> THEN <<x>>
    ELSE IF SortKey(Head(s)) <= SortKey(x) THEN <<Head(s)>> \o Insert(x, Tail(s))
    ELSE <<x>> \o s

RECURSIVE Sorted(_)
\* sorted(batch, key=lambda x: x.get("PUBLISHED_ON", 0)), a stable sort
Sorted(b) ==
    IF b = <<>> THEN <<>>
    ELSE Insert(b[Len(b)], Sorted(SubSeq(b, 1, Len(b) - 1)))

\* An oldest timestamp read from the first article of the batch as returned
OldestTimestamp_First(b) == Get(b[1], "PUBLISHED_ON", 0)

OldestTimestamp(b) == Get(Sorted(b)[1], "PUBLISHED_ON", 0)

\* A bound that forgets to subtract the second
NextTimestamp_SameSecond(b) ==
    LET oldest_timestamp == OldestTimestamp(b)
    IN IF oldest_timestamp > 0 THEN Some(oldest_timestamp) ELSE None

\* A bound whose guard lets an oldest timestamp of 0 through
NextTimestamp_ZeroAllowed(b) ==
    LET oldest_timestamp == OldestTimestamp(b)
    IN IF oldest_timestamp >= 0 THEN Some(oldest_timestamp - 1) ELSE None

NextTimestamp(b) ==
    LET oldest_timestamp == OldestTimestamp(b)
    IN IF oldest_timestamp > 0 THEN Some(oldest_timestamp - 1) ELSE None

\* if not batch
EmptyBatch_Never(b) == FALSE

EmptyBatch(b) == b = NoArticles

\* The while condition
LoopCondition_Inclusive(articles, m) == Len(articles) <= m

LoopCondition(articles, m) == Len(articles) < m

\* The short-page test that ends an iteration
ShortPage_OffByOne(b, limit) == Len(b) + 1 < limit

ShortPage(b, limit) == Len(b) < limit

LogEmpty == "No more articles to fetch"
LogNoUnique == "No new unique articles in the batch"
LogShort == "Reached the end of available articles"

\* ------------------------------------------------------------------------
\* Actions
\* ------------------------------------------------------------------------
\* create_dataset has not been called
AssemblerIdle ==
    /\ dataset_pc = "idle"
    /\ fetched_articles = <<>> /\ df = None /\ saved = <<>> /\ dataset = None

\* predict_sentiment has not been called
PredictorIdle ==
    /\ predict_pc = "idle"
    /\ texts = <<>> /\ model = <<>> /\ predict_batch_size = 1
    /\ offset = 0 /\ chunks = <<>> /\ predictions = <<>>

Init ==
    /\ pc = "idle"
    /\ api_key \in {None, Some("key")}
    /\ source \in Sources
    /\ platform = "posix" /\ AssemblerIdle
    /\ device = None /\ PredictorIdle
    /\ days_back = 7 /\ batch_size = 1 /\ max_articles = 0
    /\ all_articles = <<>> /\ seen_guids = {} /\ to_timestamp = None
    /\ batch = None
    /\ response = None /\ requests = <<>> /\ calls = 0
    /\ sleeps = 0 /\ log = "" /\ result = None
    /\ invocations = 0

\* A call that keeps the GUIDs of the earlier calls, as a set held by the
\* fetcher object would
Invoke_KeepSeen(d, b, m) ==
    /\ pc \in {"idle", "done"}
    /\ invocations < MaxInvocations
    /\ invocations' = invocations + 1
    /\ days_back' = d /\ batch_size' = b /\ max_articles' = m
    /\ all_articles' = <<>> /\ to_timestamp' = None
    /\ batch' = None
    /\ response' = None /\ requests' = <<>> /\ calls' = 0
    /\ sleeps' = 0 /\ log' = ""
    /\ IF LoopCondition(<<>>, m)
       THEN pc' = "fetch" /\ result' = None
       ELSE pc' = "done" /\ result' = Some(Take(<<>>, m))
    /\ UNCHANGED <<api_key, source, seen_guids, assembler, predictor>>

\* A call fetch_all_articles(d, b, m): the locals are initialised and the
\* while condition is evaluated for the first time.
Invoke(d, b, m) ==
    /\ pc \in {"idle", "done"}
    /\ invocations < MaxInvocations
    /\ invocations' = invocations + 1
    /\ days_back' = d /\ batch_size' = b /\ max_articles' = m
    /\ all_articles' = <<>> /\ seen_guids' = {} /\ to_timestamp' = None
    /\ batch' = None
    /\ response' = None /\ requests' = <<>> /\ calls' = 0
    /\ sleeps' = 0 /\ log' = ""
    /\ IF LoopCondition(<<>>, m)
       THEN pc' = "fetch" /\ result' = None
       ELSE pc' = "done" /\ result' = Some(Take(<<>>, m))
    /\ UNCHANGED <<api_key, source, assembler, predictor>>

\* batch = self.fetch_articles(days_back, batch_size, to_timestamp); resp is
\* what requests.get produces.  Without an API key no request is sent.
FetchArticles(resp) ==
    /\ pc = "fetch"
    /\ source # None => resp = ScriptedResponse(Value(source), calls + 1)
    /\ calls' = calls + 1
    /\ IF check_api_key(api_key)
       THEN /\ requests' =
                  Append(requests, BuildParams(days_back, batch_size, to_timestamp))
            /\ response' = Some(resp)
            /\ batch' = Some(ParseResponse(resp))
       ELSE /\ batch' = Some(NoArticles)
            /\ UNCHANGED <<requests, response>>
    /\ pc' = "process"
    /\ UNCHANGED <<api_key, source, args, all_articles, seen_guids, to_timestamp,
                   sleeps, log, result, invocations, assembler, predictor>>

\* The rest of the loop body for the page just fetched, up to the next
\* evaluation of the while condition, and the return when the loop is left.
ProcessBatch ==
    /\ pc = "process"
    /\ LET page == Value(batch)
           unique_articles == UniqueArticles(page, seen_guids)
           collected == all_articles \o unique_articles
           Return(articles, message) ==
               /\ pc' = "done"
               /\ log' = message
               /\ result' = Some(Take(articles, max_articles))
       IN IF EmptyBatch(page)
          THEN /\ Return(all_articles, LogEmpty)
               /\ UNCHANGED <<all_articles, seen_guids, to_timestamp, sleeps>>
          ELSE /\ all_articles' = collected
               /\ seen_guids' = seen_guids \cup AddedGuids(unique_articles)
               /\ IF unique_articles = <<>>
                  THEN /\ Return(collected, LogNoUnique)
                       /\ UNCHANGED <<to_timestamp, sleeps>>
                  ELSE /\ to_timestamp' = NextTimestamp(page)
                       /\ sleeps' = sleeps + 1
                       /\ IF ShortPage(page, batch_size)
                          THEN Return(collected, LogShort)
                          ELSE IF LoopCondition(collected, max_articles)
                          THEN pc' = "fetch" /\ UNCHANGED <<log, result>>
                          ELSE Return(collected, "")
    /\ batch' = None
    /\ response' = None
    /\ UNCHANGED <<api_key, source, args, requests, calls, invocations,
                   assembler, predictor>>

Next ==
    \/ \E d \in DaysBackValues, b \in 1..MaxBatchSize, m \in 0..MaxArticles :
           Invoke(d, b, m)
    \/ \E resp \in Responses : FetchArticles(resp)
    \/ ProcessBatch

Spec == Init /\ [][Next]_vars

\* ------------------------------------------------------------------------
\* process_article_data and create_dataset
\* ------------------------------------------------------------------------
\* The fetcher at rest, with an API key, while create_dataset's own steps or
\* predict_sentiment are looked at
FetcherIdle ==
    /\ pc = "idle"
    /\ api_key = Some("key")
    /\ source = None
    /\ days_back = 7 /\ batch_size = 1 /\ max_articles = 0
    /\ all_articles = <<>> /\ seen_guids = {} /\ to_timestamp = None
    /\ batch = None
    /\ response = None /\ requests = <<>> /\ calls = 0
    /\ sleeps = 0 /\ log = "" /\ result = None
    /\ invocations = 0

\* Articles fetch_all_articles can have collected: each has a GUID; the
\* published timestamp is positive, negative or missing, the sentiment label
\* present or missing.
DatasetArticles ==
    { [GUID |-> "a", PUBLISHED_ON |-> 100, SENTIMENT |-> "POSITIVE"],
      [GUID |-> "b", PUBLISHED_ON |-> 90],
      [GUID |-> "c", PUBLISHED_ON |-> -5],
      [GUID |-> "d", SENTIMENT |-> "NEGATIVE"],
      [GUID |-> "e", PUBLISHED_ON |-> -86400, SENTIMENT |-> "NEGATIVE"] }

\* What fetch_all_articles can return: at most MaxArticles articles with
\* pairwise different GUIDs, or nothing
FetchedArticles ==
    { f \in UNION { [1..n -> DatasetArticles] : n \in 0..MaxArticles } :
        \A j, k \in 1..Len(f) : j # k => f[j].GUID # f[k].GUID }

\* article.get(key) without a default: None when the key is missing
GetOptional(d, key) == IF key \in DOMAIN d THEN Some(d[key]) ELSE None

\* Whether datetime.fromtimestamp(ts) returns; it raises OSError where the
\* platform's localtime rejects a timestamp before the epoch
fromtimestamp_ok(ts, plat) == ts >= 0 \/ plat = "posix"

\* Year, month and day of the day that lies the given number of days after
\* 1970-01-01 in the proleptic Gregorian calendar
CivilDate(days) ==
    LET z == days + 719468
        era == z \div 146097
        doe == z - era * 146097
        yoe == (doe - doe \div 1460 + doe \div 36524 - doe \div 146096) \div 365
        doy == doe - (365 * yoe + yoe \div 4 - yoe \div 100)
        mp == (5 * doy + 2) \div 153
        d == doy - (153 * mp + 2) \div 5 + 1
        m == IF mp < 10 THEN mp + 3 ELSE mp - 9
        y == yoe + era * 400 + (IF m <= 2 THEN 1 ELSE 0)
    IN <<y, m, d>>

Pad2(n) == IF n < 10 THEN "0" \o ToString(n) ELSE ToString(n)

Pad4(n) ==
    IF n < 10 THEN "000" \o ToString(n)
    ELSE IF n < 100 THEN "00" \o ToString(n)
    ELSE IF n < 1000 THEN "0" \o ToString(n)
    ELSE ToString(n)

\* datetime.fromtimestamp(ts).strftime("%Y-%m-%d %H:%M:%S"), the local time
\* zone being UTC
strftime(ts) ==
    LET date == CivilDate(ts \div 86400)
        seconds == ts % 86400
    IN Pad4(date[1]) \o "-" \o Pad2(date[2]) \o "-" \o Pad2(date[3]) \o " "
         \o Pad2(seconds \div 3600) \o ":" \o Pad2((seconds % 3600) \div 60)
         \o ":" \o Pad2(seconds % 60)

\* The body of the try block for one article
processed_article(article) ==
    [id |-> GetOptional(article, "ID"),
     guid |-> GetOptional(article, "GUID"),
     title |-> GetOptional(article, "TITLE"),
     subtitle |-> GetOptional(article, "SUBTITLE"),
     content |-> Get(article, "BODY", ""),
     published_date |-> strftime(Get(article, "PUBLISHED_ON", 0)),
     published_timestamp |-> GetOptional(article, "PUBLISHED_ON"),
     url |-> GetOptional(article, "URL"),
     image_url |-> GetOptional(article, "IMAGE_URL"),
     authors |-> Get(article, "AUTHORS", ""),
     source_id |-> GetOptional(article, "SOURCE_ID"),
     keywords |-> Get(article, "KEYWORDS", ""),
     language |-> Get(article, "LANG", "EN"),
     upvotes |-> Get(article, "UPVOTES", 0),
     downvotes |-> Get(article, "DOWNVOTES", 0),
     score |-> Get(article, "SCORE", 0),
     sentiment |-> Get(article, "SENTIMENT", "NEUTRAL"),
     status |-> Get(article, "STATUS", "ACTIVE")]

\* Whether the try block raises for the article
Raises(article, plat) ==
    ~fromtimestamp_ok(Get(article, "PUBLISHED_ON", 0), plat)

RECURSIVE processed_data_StopAtFirst(_, _)
\* A loop that is left at the first article whose normalization raises
processed_data_StopAtFirst(arts, plat) ==
    IF arts = <<>> \/ Raises(Head(arts), plat) THEN <<>>
    ELSE <<processed_article(Head(arts))>>
           \o processed_data_StopAtFirst(Tail(arts), plat)

RECURSIVE processed_data(_, _)
\* The for loop of process_article_data: a row is appended for every article
\* whose try block completes, the except branch continues with the next one
processed_data(arts, plat) ==
    IF arts = <<>> THEN <<>>
    ELSE IF Raises(Head(arts), plat) THEN processed_data(Tail(arts), plat)
    ELSE <<processed_article(Head(arts))>> \o processed_data(Tail(arts), plat)

\* pd.DataFrame(rows) for a list of dicts: the columns are the keys of the
\* rows, and a frame built from the empty list has no column
DataFrame(rows) ==
    [rows |-> rows,
     columns |-> IF rows = <<>> THEN {} ELSE DOMAIN rows[1]]

process_article_data(arts, plat) == DataFrame(processed_data(arts, plat))

\* A sink that writes the frame twice
save_dataset_Twice(sink, frame) == sink \o <<frame, frame>>

\* save_dataset(df): df.to_csv writes the frame to the dataset path
save_dataset(sink, frame) == Append(sink, frame)

InitDataset ==
    /\ FetcherIdle
    /\ platform \in {"posix", "windows"}
    /\ AssemblerIdle
    /\ device = None /\ PredictorIdle

\* create_dataset up to save_dataset: fetched is what fetch_all_articles
\* returned.  Nothing fetched: None is returned.  Otherwise the articles are
\* normalized and the frame is saved.
CreateDataset(fetched) ==
    /\ dataset_pc = "idle"
    /\ fetched_articles' = fetched
    /\ IF fetched = <<>>
       THEN /\ dataset_pc' = "returned"
            /\ dataset' = None
            /\ UNCHANGED <<df, saved>>
       ELSE /\ df' = Some(process_article_data(fetched, platform))
            /\ saved' = save_dataset(saved, process_article_data(fetched, platform))
            /\ dataset_pc' = "saved"
            /\ UNCHANGED dataset
    /\ UNCHANGED <<fetcher, platform, predictor>>

\* The rest of create_dataset: df["sentiment"].value_counts() raises KeyError
\* when the frame has no such column; otherwise df is returned.
SentimentCounts ==
    /\ dataset_pc = "saved"
    /\ IF "sentiment" \in Value(df).columns
       THEN dataset_pc' = "returned" /\ dataset' = df
       ELSE dataset_pc' = "KeyError" /\ UNCHANGED dataset
    /\ UNCHANGED <<fetcher, platform, fetched_articles, df, saved, predictor>>

NextDataset ==
    \/ \E fetched \in FetchedArticles : CreateDataset(fetched)
    \/ SentimentCounts

SpecDataset == InitDataset /\ [][NextDataset]_vars

\* ------------------------------------------------------------------------
\* predict_sentiment
\* ------------------------------------------------------------------------
Texts == {"up", "down"}
Labels == {0, 1}

\* A model with its tokenizer: the class index that the argmax over its
\* logits gives for each text
Models == [Texts -> Labels]

TextSequences == UNION { [1..n -> Texts] : n \in 0..MaxTexts }

\* texts[i:i+batch_size].tolist(): the slice stops at the end of texts
batch_texts(t, start, size) ==
    SubSeq(t, start + 1, IF start + size < Len(t) THEN start + size ELSE Len(t))

\* tokenizer -> model -> argmax for one chunk
preds(m, chunk) == [k \in 1..Len(chunk) |-> m[chunk[k]]]

InitPredict ==
    /\ FetcherIdle
    /\ platform = "posix" /\ AssemblerIdle
    /\ device \in {None, Some("cpu")}
    /\ PredictorIdle

\* A call predict_sentiment(t, m, tokenizer, b): predictions = []
PredictSentiment(t, m, b) ==
    /\ predict_pc = "idle"
    /\ texts' = t /\ model' = m /\ predict_batch_size' = b
    /\ offset' = 0 /\ chunks' = <<>> /\ predictions' = <<>>
    /\ predict_pc' = "loop"
    /\ UNCHANGED <<fetcher, assembler, device>>

\* One iteration of the for loop: the chunk is tokenized, and moving the
\* encodings to device raises NameError while no global device is bound
PredictBatch ==
    /\ predict_pc = "loop"
    /\ offset < Len(texts)
    /\ chunks' = Append(chunks, batch_texts(texts, offset, predict_batch_size))
    /\ IF device = None
       THEN /\ predict_pc' = "NameError"
            /\ UNCHANGED <<offset, predictions>>
       ELSE /\ predictions' =
                  predictions \o
                    preds(model, batch_texts(texts, offset, predict_batch_size))
            /\ offset' = offset + predict_batch_size
            /\ UNCHANGED predict_pc
    /\ UNCHANGED <<fetcher, assembler, device, texts, model, predict_batch_size>>

\* range(0, len(texts), batch_size) is exhausted: return predictions
PredictReturn ==
    /\ predict_pc = "loop"
    /\ offset >= Len(texts)
    /\ predict_pc' = "returned"
    /\ UNCHANGED <<fetcher, assembler, device, texts, model, predict_batch_size,
                   offset, chunks, predictions>>

NextPredict ==
    \/ \E t \in TextSequences, m \in Models, b \in 1..MaxPredictBatchSize :
           PredictSentiment(t, m, b)
    \/ PredictBatch
    \/ PredictReturn

SpecPredict == InitPredict /\ [][NextPredict]_vars

\* ------------------------------------------------------------------------
\* Vocabulary of the properties
\* ------------------------------------------------------------------------
GuidOf(article) == IF "GUID" \in DOMAIN article THEN article.GUID ELSE NoGuid

TimestampOf(article) ==
    IF "PUBLISHED_ON" \in DOMAIN article THEN article.PUBLISHED_ON ELSE 0

Min(x, y) == IF x < y THEN x ELSE y

\* r is the first n elements of s
IsFirstN(r, s, n) ==
    /\ Len(r) = Min(n, Len(s))
    /\ \A i \in 1..Len(r) : r[i] = s[i]

\* The upper bound each request carried: None when it has no to_ts
Bounds(reqs) ==
    [i \in 1..Len(reqs) |->
        IF "to_ts" \in DOMAIN reqs[i] THEN Some(reqs[i].to_ts) ELSE None]

\* The indices of a page whose article has a GUID that is neither in seen nor
\* at an earlier index of the page
NewIndices(page, seen) ==
    { i \in 1..Len(page) :
        /\ GuidOf(page[i]) # NoGuid
        /\ GuidOf(page[i]) \notin seen
        /\ \A j \in 1..(i - 1) : GuidOf(page[j]) # GuidOf(page[i]) }

RECURSIVE Restrict(_, _)
\* The subsequence of page at the indices in S, in page order
Restrict(page, S) ==
    IF page = <<>> THEN <<>>
    ELSE LET n == Len(page)
             front == Restrict(SubSeq(page, 1, n - 1), S)
         IN IF n \in S THEN Append(front, page[n]) ELSE front

\* A page of exactly limit articles whose GUIDs are all new and distinct
FreshPage(page, seen, limit) ==
    /\ Len(page) = limit
    /\ NewIndices(page, seen) = 1..Len(page)

\* Every article of the page was published at or before the bound
Honours(page, bound) == \A i \in 1..Len(page) : TimestampOf(page[i]) <= bound

ArticleA == [GUID |-> "a", PUBLISHED_ON |-> 100]
ArticleB == [GUID |-> "b", PUBLISHED_ON |-> 90]
ArticleC == [GUID |-> "c", PUBLISHED_ON |-> 80]

\* page1, page2, page3 of the scenario
Scenario == << <<ArticleA, ArticleB>>, <<ArticleB, ArticleC>>, NoArticles >>

ScenarioRun ==
    /\ source = Some(Scenario)
    /\ api_key # None
    /\ args = <<7, 2, 3>>
    /\ invocations >= 1

\* ------------------------------------------------------------------------
\* C1
\* ------------------------------------------------------------------------
\* C1 as stated: in the scenario run the result is [a, b, c], three page
\* requests are made, the loop ends on the empty third page, and the bounds
\* requested are none, 89, 79.
C1_ScenarioAsStated ==
    (ScenarioRun /\ pc = "done") =>
        /\ result = Some(<<ArticleA, ArticleB, ArticleC>>)
        /\ calls = 3
        /\ Len(requests) = 3
        /\ log = LogEmpty
        /\ Bounds(requests) = <<None, Some(89), Some(79)>>

\* C1 amended: in the scenario run the result is [a, b, c], exactly two page
\* requests are made with bounds none and 89, and the loop ends after call 2
\* because collected has reached max_articles, not on a break: the bound 79 is
\* computed and never sent, and page3 is never requested.
C1_Scenario ==
    ScenarioRun =>
        /\ calls <= 2
        /\ pc = "done" =>
              /\ result = Some(<<ArticleA, ArticleB, ArticleC>>)
              /\ calls = 2
              /\ Bounds(requests) = <<None, Some(89)>>
              /\ to_timestamp = Some(79)
              /\ log = ""

C1_Witness == ScenarioRun /\ pc = "done" /\ calls = 2

\* ------------------------------------------------------------------------
\* C2
\* ------------------------------------------------------------------------
\* C2: in every state of a run, seen_guids has as many elements as collected,
\* it holds the GUID of every collected article, and no two collected
\* articles have the same GUID.
C2_DedupInvariant ==
    /\ Cardinality(seen_guids) = Len(all_articles)
    /\ \A i \in 1..Len(all_articles) : GuidOf(all_articles[i]) \in seen_guids
    /\ \A i, j \in 1..Len(all_articles) :
           i # j => GuidOf(all_articles[i]) # GuidOf(all_articles[j])

\* The first page was processed, it was not short for batch_size 2 and its
\* oldest timestamp is 100: it holds article a at least twice.  One copy was
\* collected.
C2_Witness ==
    /\ source = None
    /\ pc = "fetch" /\ calls = 1 /\ batch_size = 2
    /\ to_timestamp = Some(99)
    /\ all_articles = <<ArticleA>>

\* ------------------------------------------------------------------------
\* C3
\* ------------------------------------------------------------------------
\* C3: whenever the page processed is a page of batch_size fresh GUIDs, all of
\* them are collected, and the loop goes on to another request exactly when
\* collected is still shorter than max_articles; otherwise the function
\* returns, and returns exactly max_articles articles.
C3_FreshSourceTermination ==
    [][ (pc = "process" /\ FreshPage(Value(batch), seen_guids, batch_size)) =>
          /\ Len(all_articles') = Len(all_articles) + batch_size
          /\ pc' = "fetch" <=> Len(all_articles') < max_articles
          /\ pc' = "done" <=> Len(all_articles') >= max_articles
          /\ pc' = "done" =>
                /\ Len(Value(result')) = max_articles
                /\ log' = ""
      ]_vars

\* Two calls answered by one fresh article each, batch_size 1, max_articles 2:
\* the loop stopped after the second.
C3_Witness ==
    /\ source = None
    /\ pc = "done" /\ log = ""
    /\ batch_size = 1 /\ max_articles = 2
    /\ calls = 2
    /\ Bounds(requests) = <<None, Some(99)>>
    /\ to_timestamp = Some(89)
    /\ result = Some(<<ArticleA, ArticleB>>)

C5_BoundsStrictlyDecreasing ==
    \A i, j \in 1..Len(requests) :
        (i < j /\ "to_ts" \in DOMAIN requests[i] /\ "to_ts" \in DOMAIN requests[j])
            => requests[j].to_ts < requests[i].to_ts

\* C5 amended: a bound that is not none is strictly smaller than the
\* published timestamp of every article of the page it was computed from;
\* so whenever that page answered a request with bound B and honoured it
\* (every article published at or before B), the bound of the next request is
\* none or strictly smaller than B.
C5_BoundBelowPage ==
    [][ (pc = "process" /\ pc' = "fetch" /\ to_timestamp' # None) =>
          /\ \A i \in 1..Len(Value(batch)) :
                 Value(to_timestamp') < TimestampOf(Value(batch)[i])
          /\ (to_timestamp # None /\ Honours(Value(batch), Value(to_timestamp)))
                 => Value(to_timestamp') < Value(to_timestamp)
      ]_vars

\* The second request carried a bound, its page was processed, and a third
\* request is about to carry a smaller one.
C5_Witness ==
    /\ source = None
    /\ pc = "fetch" /\ calls = 2
    /\ "to_ts" \in DOMAIN requests[2]
    /\ to_timestamp # None
    /\ Value(to_timestamp) < requests[2].to_ts

\* ------------------------------------------------------------------------
\* C6
\* ------------------------------------------------------------------------
\* C6: every request carries no upper bound or a strictly positive one.
C6_BoundAbsentOrPositive ==
    \A i \in 1..Len(requests) :
        "to_ts" \in DOMAIN requests[i] => requests[i].to_ts > 0

\* ------------------------------------------------------------------------
\* C7
\* ------------------------------------------------------------------------
\* C7: processing an empty page ends the loop on the empty-page break: the
\* function returns (no further fetch_articles call in this run), collected,
\* seen_guids and the bound are as the earlier calls left them, and the result
\* is taken from that collected.
C7_EmptyPageStops ==
    [][ (pc = "process" /\ Value(batch) = NoArticles) =>
          /\ pc' = "done"
          /\ log' = LogEmpty
          /\ all_articles' = all_articles
          /\ seen_guids' = seen_guids
          /\ to_timestamp' = to_timestamp
          /\ calls' = calls /\ requests' = requests
          /\ IsFirstN(Value(result'), all_articles, max_articles)
      ]_vars

\* An empty page on the third call, after two pages that were collected from
C7_Witness ==
    /\ pc = "done" /\ log = LogEmpty
    /\ calls = 3 /\ Len(requests) = 3
    /\ Len(all_articles) = 2

\* ------------------------------------------------------------------------
\* C8
\* ------------------------------------------------------------------------
\* C8: processing a non-empty page in which every GUID is missing or already
\* in seen_guids ends the loop in that iteration: collected, seen_guids and
\* the bound are unchanged, there is no pause, and the function returns.
C8_NoNewUniqueStops ==
    [][ (/\ pc = "process"
         /\ Value(batch) # NoArticles
         /\ \A i \in 1..Len(Value(batch)) :
                \/ GuidOf(Value(batch)[i]) = NoGuid
                \/ GuidOf(Value(batch)[i]) \in seen_guids) =>
          /\ pc' = "done"
          /\ log' = LogNoUnique
          /\ all_articles' = all_articles
          /\ seen_guids' = seen_guids
          /\ to_timestamp' = to_timestamp
          /\ sleeps' = sleeps
          /\ calls' = calls /\ requests' = requests
          /\ IsFirstN(Value(result'), all_articles, max_articles)
      ]_vars

\* The loop ended on the no-new-unique break of the second call, the first
\* page having been collected from
C8_Witness ==
    /\ pc = "done" /\ log = LogNoUnique
    /\ calls = 2
    /\ Len(all_articles) >= 1

\* ------------------------------------------------------------------------
\* C9
\* ------------------------------------------------------------------------
\* C9: processing a page shorter than batch_size that holds at least one new
\* GUID appends the page's new unique articles, in page order, to collected,
\* and then ends the loop: the function returns.
C9_ShortPageStops ==
    [][ (/\ pc = "process"
         /\ Len(Value(batch)) < batch_size
         /\ NewIndices(Value(batch), seen_guids) # {}) =>
          /\ pc' = "done"
          /\ log' = LogShort
          /\ all_articles' =
                 all_articles \o
                     Restrict(Value(batch), NewIndices(Value(batch), seen_guids))
          /\ calls' = calls /\ requests' = requests
          /\ IsFirstN(Value(result'), all_articles', max_articles)
      ]_vars

\* The loop ended on the short-page break with an article collected
C9_Witness ==
    /\ pc = "done" /\ log = LogShort
    /\ Len(all_articles) >= 1
    /\ Len(all_articles) < max_articles

\* ------------------------------------------------------------------------
\* C10
\* ------------------------------------------------------------------------
\* The request parameters that would carry the days_back window
WindowParams == {"days_back", "from_ts", "start_date"}

\* C10: every request carries the days_back window, limit = batch_size and
\* the current upper bound.
C10_RequestCarriesWindow ==
    \A i \in 1..Len(requests) :
        /\ DOMAIN requests[i] \cap WindowParams # {}
        /\ requests[i].limit = batch_size

\* ------------------------------------------------------------------------
\* C11
\* ------------------------------------------------------------------------
\* A request that failed: an exception was raised, the status is not 200, or
\* the body has no "Data"
FailedResponse(resp) ==
    \/ "exception" \in DOMAIN resp
    \/ /\ "exception" \notin DOMAIN resp
       /\ \/ resp.status_code # 200
          \/ "Data" \notin DOMAIN resp

\* C11: a failed page request reaches the loop as an empty page, and the loop
\* body then returns: no further request (no retry), collected untouched, the
\* result taken from the articles of the earlier pages.
C11_FailureIsEmptyPage ==
    [][ (pc = "process" /\ response # None /\ FailedResponse(Value(response))) =>
          /\ batch = Some(NoArticles)
          /\ pc' = "done"
          /\ log' = LogEmpty
          /\ all_articles' = all_articles
          /\ calls' = calls /\ requests' = requests
          /\ result' # None
          /\ IsFirstN(Value(result'), all_articles, max_articles)
      ]_vars

\* The third request of a run failed with a status that is not 200, two
\* articles having been collected from the first two pages
C11_Witness ==
    /\ pc = "process" /\ calls = 3
    /\ response # None
    /\ "exception" \notin DOMAIN Value(response)
    /\ Value(response).status_code = 500
    /\ batch = Some(NoArticles)
    /\ Len(all_articles) = 2

\* ------------------------------------------------------------------------
\* C16
\* ------------------------------------------------------------------------
\* C16: every pause of a run is followed by another page request of that run,
\* so a run that has returned has paused fewer times than it has fetched.
C16_PauseOnlyBetweenFetches ==
    (pc = "done" /\ calls > 0) => sleeps < calls

MinTimestamp(page) ==
    CHOOSE t \in { TimestampOf(page[i]) : i \in 1..Len(page) } :
        \A i \in 1..Len(page) : t <= TimestampOf(page[i])

\* C18: after a page that held at least one new unique article, the bound is
\* the smallest published timestamp over every article of the page (a missing
\* one counting as 0, duplicates and articles without GUID included, whatever
\* their order) minus 1, or none when that minimum is <= 0.
C18_BoundFromPageMinimum ==
    [][ (pc = "process" /\ NewIndices(Value(batch), seen_guids) # {}) =>
          to_timestamp' =
              IF MinTimestamp(Value(batch)) <= 0 THEN None
              ELSE Some(MinTimestamp(Value(batch)) - 1)
      ]_vars

\* The second page held the new article a and the already collected b: the
\* bound comes from b, the page's oldest article, which was filtered out.
C18_Witness ==
    /\ source = None
    /\ pc = "fetch" /\ calls = 2
    /\ batch_size = 2 /\ max_articles = 3
    /\ all_articles = <<ArticleB, ArticleA>>
    /\ to_timestamp = Some(89)

\* ------------------------------------------------------------------------
\* C19
\* ------------------------------------------------------------------------
\* C19: a call that has not fetched yet, the first on the fetcher or a later
\* one, has collected empty, seen_guids empty, the bound none and no request
\* sent: nothing of an earlier call is left.
C19_FreshStatePerCall ==
    calls = 0 =>
        /\ all_articles = <<>>
        /\ seen_guids = {}
        /\ to_timestamp = None
        /\ batch = None
        /\ requests = <<>>

\* The second call on the fetcher is about to make its first request
C19_Witness ==
    /\ invocations = 2
    /\ pc = "fetch"
    /\ calls = 0

\* ------------------------------------------------------------------------
\* C20
\* ------------------------------------------------------------------------
\* C20: a run makes at most max_articles fetch_articles calls, because before
\* every call collected holds at least one article per earlier call and fewer
\* than max_articles; with max_articles = 0 the call returns the empty
\* sequence without any request.
C20_CallsBounded ==
    /\ calls <= max_articles
    /\ Len(requests) <= calls
    /\ pc = "fetch" => (calls <= Len(all_articles) /\ Len(all_articles) < max_articles)
    /\ (invocations >= 1 /\ max_articles = 0) =>
           (pc = "done" /\ calls = 0 /\ requests = <<>> /\ result = Some(<<>>))

\* A run that needed max_articles = 3 requests
C20_Witness ==
    /\ pc = "done"
    /\ max_articles = 3
    /\ calls = 3 /\ Len(requests) = 3

\* ------------------------------------------------------------------------
\* C12
\* ------------------------------------------------------------------------
\* C12: create_dataset never raises; it returns none exactly when nothing was
\* fetched, and a Dataset whenever at least one article was fetched, however
\* many of the fetched articles were dropped by the normalization.
C12_NoneIffNothingFetched ==
    /\ dataset_pc # "KeyError"
    /\ dataset_pc = "returned" => (dataset = None <=> fetched_articles = <<>>)

\* ------------------------------------------------------------------------
\* C13
\* ------------------------------------------------------------------------
\* C13: with nothing fetched the sink is never written to; with at least one
\* article fetched it has been written to exactly once, with the normalized
\* frame, from the save step on, whether create_dataset then returns or not.
C13_SavedOnceIffFetched ==
    /\ dataset_pc = "idle" => saved = <<>>
    /\ (dataset_pc # "idle" /\ fetched_articles = <<>>) =>
           (saved = <<>> /\ dataset_pc = "returned" /\ dataset = None)
    /\ (dataset_pc # "idle" /\ fetched_articles # <<>>) =>
           /\ saved = << DataFrame(processed_data(fetched_articles, platform)) >>
           /\ df = Some(saved[1])
           /\ dataset # None => dataset = df

\* Three articles were fetched, one was dropped, and the frame of the other
\* two was saved before create_dataset returned it
C13_Witness ==
    /\ dataset_pc = "returned"
    /\ Len(fetched_articles) = 3
    /\ Len(saved) = 1 /\ Len(saved[1].rows) = 2
    /\ dataset = Some(saved[1])

\* ------------------------------------------------------------------------
\* C14
\* ------------------------------------------------------------------------
\* The indices of the articles whose normalization succeeds
Normalizable(arts, plat) == { k \in 1..Len(arts) : ~Raises(arts[k], plat) }

\* C14: the frame holds one row for every article whose normalization
\* succeeds, in input order, each row being what the article alone normalizes
\* to; an article whose normalization raises leaves the other rows as they are.
C14_RowPerNormalizableArticle ==
    df # None =>
        LET rows == Value(df).rows
            kept == Restrict(fetched_articles, Normalizable(fetched_articles, platform))
        IN /\ Len(rows) = Cardinality(Normalizable(fetched_articles, platform))
           /\ \A k \in 1..Len(rows) : rows[k] = processed_article(kept[k])
           /\ \A k \in 1..Len(rows) : rows[k].guid = Some(kept[k].GUID)

\* The second of three articles was dropped; the rows of the first and the
\* third are there, in that order
C14_Witness ==
    /\ platform = "windows"
    /\ df # None
    /\ Len(fetched_articles) = 3
    /\ ~Raises(fetched_articles[1], platform)
    /\ Raises(fetched_articles[2], platform)
    /\ ~Raises(fetched_articles[3], platform)
    /\ Len(Value(df).rows) = 2
    /\ Value(df).rows[2].guid = Some(fetched_articles[3].GUID)

\* ------------------------------------------------------------------------
\* C15
\* ------------------------------------------------------------------------
RECURSIVE Flatten(_)
Flatten(seqs) == IF seqs = <<>> THEN <<>> ELSE Head(seqs) \o Flatten(Tail(seqs))

\* C15: for every texts and every batch_size >= 1 predict_sentiment returns:
\* it never raises, its chunks are contiguous, of at most batch_size texts and
\* full except the last, and the labels it returns are the model's labels of
\* texts, position by position, whatever batch_size is.
C15_LabelsInInputOrder ==
    /\ predict_pc # "NameError"
    /\ predict_pc = "returned" =>
           /\ Flatten(chunks) = texts
           /\ \A k \in 1..Len(chunks) :
                  /\ Len(chunks[k]) <= predict_batch_size
                  /\ k < Len(chunks) => Len(chunks[k]) = predict_batch_size
           /\ Len(predictions) = Len(texts)
           /\ \A k \in 1..Len(texts) : predictions[k] = model[texts[k]]

====
